---- MODULE Spec2Model ----
(***************************************************************************)
(* State-machine model of the "Hello, cube!" application:                  *)
(*   BaseApplication (BaseApplication.h), Cube (Cube.h), the shader        *)
(*   helpers (ShaderHelpers.h) and callbacks / main loop (HelloCube.cpp).  *)
(*                                                                         *)
(* GL / GLFW are the environment.  Their objects are tracked as sets of    *)
(* live names; every call a handler makes that creates, releases or uses   *)
(* an object is appended, in program order, to glLog, the call log of the  *)
(* handler that ran last.  Time is counted in ticks, TicksPerUnit ticks    *)
(* being the 1.0 of glfwGetTime(); a quotient a/b of doubles is kept as    *)
(* the pair <<a, b>>.                                                      *)
(***************************************************************************)
EXTENDS Integers, Sequences, FiniteSets, TLC

(* ------------------------------ bounds -------------------------------- *)
MaxName == 2        \* GL objects a cube on its own may leak
MaxTime == 12       \* last clock reading, in ticks
MaxStep == 4        \* largest clock advance between two readings, in ticks
MaxFrames == 9      \* frames drawn by the main loop on its own
MaxAppFrames == 2   \* frames drawn by the main loop within main()
MaxDestroy == 2     \* calls of destroy()

(* ------------------------- program constants -------------------------- *)
TicksPerUnit == 4   \* the 1.0 of `elapsed >= 1.0`, in ticks
GLFW_KEY_LAST == 348
GLFW_KEY_ESCAPE == 256
GLFW_RELEASE == 0
GLFW_PRESS == 1
GLFW_REPEAT == 2
KEY_0 == 48
KEY_9 == 57
InitWidth == 800
InitHeight == 600

\* key codes delivered to the keyboard callback ('1', '5', 'A', Escape,
\* and GLFW_KEY_UNKNOWN = -1)
Keys == {49, 53, 65, GLFW_KEY_ESCAPE}
KeyInputs == Keys \cup {-1}
KeyActions == {GLFW_RELEASE, GLFW_PRESS, GLFW_REPEAT}
\* framebuffer sizes delivered to the resize callback
Widths == {InitWidth, 400}
Heights == {InitHeight, 0}

\* what the environment does with one shader file: fopen fails, malloc
\* fails, the source does not compile, the source compiles
FileStat == {"missing", "nomem", "bad", "ok"}
\* the two outcomes a run of the whole application is given
AppFileStat == {"missing", "ok"}
\* the keys a run of the whole application is given
AppKeys == {53, GLFW_KEY_ESCAPE, -1}
\* the clock advances between readings: any, or at most one tick each
AnySteps == 0 .. MaxStep
AppSteps == {0, 1}

\* the shader files loaded on the number keys
shaders(d) ==
    CASE d = 0 -> <<"minimal.vs", "minimal.fs">>
      [] d = 1 -> <<"color.vs", "color.fs">>
      [] d = 2 -> <<"cut.vs", "cut.fs">>
      [] d = 3 -> <<"wobble.vs", "color.fs">>
      [] d = 4 -> <<"experimental.vs", "experimental.fs">>
      [] OTHER -> <<"yourshader.vs", "yourshader.fs">>

\* results of the four glGetUniformLocation queries on a linked program
\* (-1: the program has no such uniform)
LocChoices ==
    { [projection |-> 0, modelView |-> 1, time |-> 2, cameraPos |-> -1],
      [projection |-> 0, modelView |-> 1, time |-> -1, cameraPos |-> -1] }
NoLocs == [projection |-> 0, modelView |-> 0, time |-> 0, cameraPos |-> 0]

VARIABLES
    pc,             \* position of the caller: main() and the main loop
    glfwUp,         \* environment: the GLFW library is initialised
    winLive,        \* environment: the window (and GL context) exists
    gladLoaded,     \* the GL function pointers are loaded
    win,            \* app.win (0 = NULL, 1 = the window)
    width, height,  \* app.width, app.height
    flags,          \* app.flags
    pressedKeys,    \* app.pressedKeys
    cube,           \* app.cube: [vao, vbo0, vbo1]
    program,        \* app.program
    locs,           \* app.locProjection .. app.locCameraPos
    shouldClose,    \* the window's close flag
    clock,          \* environment: last value returned by glfwGetTime()
    timing,         \* app.timeCur/timeDelta/avg_* and mainLoop's locals
    glProgs,        \* environment: live program objects
    glVaos,         \* environment: live vertex array objects
    glBufs,         \* environment: live buffer objects
    relCalls,       \* history: release calls issued for window / library
    destroyCalls,   \* history: number of destroy() calls so far
    fired,          \* history: key actions fired since the key's last release
    drawn,          \* history: draws issued, and draws at the last refresh
    lastOp,         \* history: the handler that ran last
    lastCall,       \* history: inputs/results of the handler that ran last
    glLog           \* history: the calls the last handler made, in order

vars == <<pc, glfwUp, winLive, gladLoaded, win, width, height, flags,
          pressedKeys, cube, program, locs, shouldClose, clock, timing,
          glProgs, glVaos, glBufs, relCalls, destroyCalls, fired, drawn,
          lastOp, lastCall, glLog>>

(* --------------------------- ShaderHelpers.h --------------------------- *)

\* (variant: a shader that does not compile is not deleted)
shaderCreateAndCompileKeepsFailed(name, compiles) ==
    [id |-> IF compiles THEN name ELSE 0,
     log |-> << <<"glCreateShader", name>> >>]

\* shaderCreateAndCompile: the shader name (0 on failure) and the calls made
shaderCreateAndCompile(name, compiles) ==
    IF compiles
    THEN [id |-> name, log |-> << <<"glCreateShader", name>> >>]
    ELSE [id |-> 0, log |-> << <<"glCreateShader", name>>,
                               <<"glDeleteShader", name>> >>]

\* shaderCreateFromFileAndCompile: no shader object unless the file opens
\* and its buffer is allocated
shaderCreateFromFileAndCompile(name, stat) ==
    IF stat \in {"missing", "nomem"}
    THEN [id |-> 0, log |-> << >>]
    ELSE shaderCreateAndCompile(name, stat = "ok")

\* (variant: a program that does not link is not deleted)
programCreateKeepsFailed(vertex_shader, fragment_shader, name, linkOk) ==
    LET attach == (IF vertex_shader # 0
                   THEN << <<"glAttachShader", vertex_shader>> >> ELSE << >>)
               \o (IF fragment_shader # 0
                   THEN << <<"glAttachShader", fragment_shader>> >> ELSE << >>)
        head == << <<"glCreateProgram", name>> >> \o attach
    IN  [id |-> IF linkOk THEN name ELSE 0,
         log |-> head \o << <<"glLinkProgram", IF linkOk THEN 1 ELSE 0>> >>]

\* programCreate: attaches the shaders that are non-zero, links, and deletes
\* the program again when the link status is not GL_TRUE
programCreate(vertex_shader, fragment_shader, name, linkOk) ==
    LET attach == (IF vertex_shader # 0
                   THEN << <<"glAttachShader", vertex_shader>> >> ELSE << >>)
               \o (IF fragment_shader # 0
                   THEN << <<"glAttachShader", fragment_shader>> >> ELSE << >>)
        head == << <<"glCreateProgram", name>> >> \o attach
    IN  IF linkOk
        THEN [id |-> name, log |-> head \o << <<"glLinkProgram", 1>> >>]
        ELSE [id |-> 0, log |-> head \o << <<"glLinkProgram", 0>>,
                                           <<"glDeleteProgram", name>> >>]

\* programCreateFromFiles
programCreateFromFiles(vsStat, fsStat, name, linkOk) ==
    LET v == shaderCreateFromFileAndCompile(1, vsStat)
        f == shaderCreateFromFileAndCompile(2, fsStat)
        p == programCreate(v.id, f.id, name, linkOk)
    IN  [id |-> p.id,
         log |-> v.log \o f.log \o p.log
                 \o << <<"glDeleteShader", v.id>>, <<"glDeleteShader", f.id>> >>]

(* ------------------------------- Cube.h -------------------------------- *)

NoCube == [vao |-> 0, vbo0 |-> 0, vbo1 |-> 0]

\* (variant: the deletes are unconditional and the handles are left as
\* they are)
CubeDestroyKeepsHandles(c) ==
    [cube |-> c,
     log |-> << <<"glBindVertexArray", 0>>,
                <<"glDeleteVertexArrays", c.vao>>,
                <<"glDeleteBuffers", c.vbo0>>,
                <<"glDeleteBuffers", c.vbo1>> >>]

\* Cube::destroy: the cube afterwards and the calls made
CubeDestroy(c) ==
    LET delVao == IF c.vao # 0
                  THEN << <<"glDeleteVertexArrays", c.vao>> >> ELSE << >>
        delVbo == IF c.vbo0 # 0 \/ c.vbo1 # 0
                  THEN << <<"glDeleteBuffers", c.vbo0>>,
                          <<"glDeleteBuffers", c.vbo1>> >>
                  ELSE << >>
    IN  [cube |-> [vao |-> IF c.vao # 0 THEN 0 ELSE c.vao,
                   vbo0 |-> IF c.vbo0 # 0 \/ c.vbo1 # 0 THEN 0 ELSE c.vbo0,
                   vbo1 |-> IF c.vbo0 # 0 \/ c.vbo1 # 0 THEN 0 ELSE c.vbo1],
         log |-> << <<"glBindVertexArray", 0>> >> \o delVao \o delVbo]

\* Cube::initBasic with the names glGenVertexArrays / glGenBuffers return
CubeInitBasic(va, b0, b1) ==
    [cube |-> [vao |-> va, vbo0 |-> b0, vbo1 |-> b1],
     log |-> << <<"glGenVertexArrays", va>>, <<"glGenBuffers", b0>>,
                <<"glGenBuffers", b1>> >>]

\* environment: the names glGenVertexArrays / glGenBuffers /
\* glCreateProgram can return, none of them in use.  With `any` they are
\* any unused names; without, the lowest unused ones (the code only ever
\* compares a name with 0).
VaoNames == 1 .. MaxName
BufNames == 1 .. (MaxName + 2)
Lowest(S) == CHOOSE n \in S : \A m \in S : n <= m
FreshVaos(live, any) ==
    LET free == VaoNames \ live
    IN  IF any \/ free = {} THEN free ELSE {Lowest(free)}
FreshBufPairs(live, any) ==
    LET free == BufNames \ live
    IN  IF any THEN { pr \in free \X free : pr[1] # pr[2] }
        ELSE IF Cardinality(free) < 2 THEN {}
        ELSE {<<Lowest(free), Lowest(free \ {Lowest(free)})>>}

\* names a log says were released by `call`
Released(log, call) ==
    { log[i][2] : i \in { j \in 1 .. Len(log) : log[j][1] = call } } \ {0}

(* --------------------------- BaseApplication.h ------------------------- *)

ProgNames == 1 .. MaxName
FreshProgs(live, any) ==
    LET free == ProgNames \ live
    IN  IF any \/ free = {} THEN free ELSE {Lowest(free)}

\* destroyShaders
destroyShaders(prog) ==
    IF prog # 0
    THEN [program |-> 0, log |-> << <<"glDeleteProgram", prog>> >>]
    ELSE [program |-> prog, log |-> << >>]

\* initShaders: the program and uniform locations afterwards, the value
\* returned and the calls made
initShaders(prog, lc, vsStat, fsStat, name, linkOk, newLocs) ==
    LET d == destroyShaders(prog)
        b == programCreateFromFiles(vsStat, fsStat, name, linkOk)
    IN  IF b.id = 0
        THEN [program |-> b.id, locs |-> lc, ret |-> FALSE,
              log |-> d.log \o b.log]
        ELSE [program |-> b.id, locs |-> newLocs, ret |-> TRUE,
              log |-> d.log \o b.log]

\* environment: the live objects after the calls of a log, `gen` being the
\* call that creates an object and `del` the call that deletes it
RECURSIVE LiveAfter(_, _, _, _)
LiveAfter(live, log, gen, del) ==
    IF log = << >> THEN live
    ELSE LET e == Head(log)
             next == IF e[1] = gen THEN live \cup {e[2]}
                     ELSE IF e[1] = del THEN live \ {e[2]}
                     ELSE live
         IN  LiveAfter(next, Tail(log), gen, del)

\* history record of a handler that is neither initShaders nor the keyboard
\* callback (key and action -2: no key event)
NoCall == [key |-> -2, action |-> -2, vs |-> "", fs |-> "",
           vsStat |-> "", fsStat |-> "", linkOk |-> FALSE, before |-> 0,
           ret |-> FALSE]

NoTiming == [timeCur |-> 0, timeDelta |-> 0,
             avg_frametime |-> <<0, 1>>, avg_fps |-> <<0, 1>>,
             start_time |-> 0, last_time |-> 0, frame |-> 0,
             frames_total |-> 0]

\* history of the frames drawn by the main loop:
\*   total     draws issued since the loop was entered
\*   window    draws issued since the clock reading at which a full time
\*             unit had last passed (refreshAt), or since the loop started
\*   windowAt, elapsed   window and the time since refreshAt, as they were at
\*             the latest clock reading of the loop
\*   prevFps, prevFt     the statistics before that reading
\*   rate      the clock advance between the frames of the window: 0 none
\*             yet, d > 0 every advance was d, -1 they differed
\*   winRate   rate, as it was at the latest clock reading
NoDrawn == [total |-> 0, window |-> 0, windowAt |-> 0, elapsed |-> 0,
            refreshAt |-> 0, prevFps |-> <<0, 1>>, prevFt |-> <<0, 1>>,
            rate |-> 0, winRate |-> 0]

(* ------------------------------ actions -------------------------------- *)

\* main() before initBaseApp: no field of app is read before initBaseApp
\* has assigned it, so the fields start at 0 here
Init ==
    /\ pc = "start"
    /\ glfwUp = FALSE /\ winLive = FALSE /\ gladLoaded = FALSE
    /\ win = 0 /\ width = 0 /\ height = 0 /\ flags = 0
    /\ pressedKeys = [k \in Keys |-> FALSE]
    /\ cube = NoCube /\ program = 0 /\ locs = NoLocs
    /\ shouldClose = FALSE /\ clock = 0 /\ timing = NoTiming
    /\ glProgs = {} /\ glVaos = {} /\ glBufs = {}
    /\ relCalls = [window |-> 0, glfw |-> 0]
    /\ destroyCalls = 0
    /\ fired = [k \in Keys |-> 0]
    /\ drawn = NoDrawn
    /\ lastOp = "none" /\ lastCall = NoCall /\ glLog = << >>

\* glfwGetTime(): the clock has advanced by one of `steps` since it was last
\* read
Readings(steps) == { t \in { clock + s : s \in steps } : t <= MaxTime }

\* initBaseApp(800, 600, ...) as main() calls it; `fail` is the step that
\* fails: glfwInit, glfwCreateWindow, gladLoadGL, or none
InitBaseApp(steps) ==
    /\ pc = "start"
    /\ \E fail \in {"glfwInit", "glfwCreateWindow", "gladLoadGL", "none"},
          va \in FreshVaos(glVaos, FALSE),
          bp \in FreshBufPairs(glBufs, FALSE), now \in Readings(steps) :
        LET ok == fail = "none"
            c  == CubeInitBasic(va, bp[1], bp[2])
        IN  /\ width' = InitWidth /\ height' = InitHeight /\ flags' = 1
            /\ pressedKeys' = [k \in Keys |-> FALSE]
            /\ program' = 0
            /\ glfwUp' = (fail # "glfwInit")
            /\ winLive' = (fail \notin {"glfwInit", "glfwCreateWindow"})
            /\ win' = IF fail \in {"glfwInit", "glfwCreateWindow"} THEN 0 ELSE 1
            /\ gladLoaded' = ok
            /\ cube' = IF ok THEN c.cube ELSE NoCube
            /\ glVaos' = IF ok THEN glVaos \cup {va} ELSE glVaos
            /\ glBufs' = IF ok THEN glBufs \cup {bp[1], bp[2]} ELSE glBufs
            /\ clock' = IF ok THEN now ELSE clock
            /\ timing' = [timing EXCEPT
                             !.avg_frametime = <<-1, 1>>, !.avg_fps = <<-1, 1>>,
                             !.timeCur = IF ok THEN now ELSE @]
            /\ glLog' = IF ok THEN c.log ELSE << >>
            /\ pc' = IF ok THEN "inited" ELSE "failed"
    /\ lastOp' = "initBaseApp" /\ lastCall' = NoCall
    /\ UNCHANGED <<locs, shouldClose, glProgs, relCalls, destroyCalls, fired,
                   drawn>>

\* app.initShaders(vs, fs): the files' states (drawn from `stats`), the link
\* status and the uniform locations are the environment's
CallInitShaders(vs, fs, stats, anyName, key, action) ==
    \E vsStat \in stats, fsStat \in stats, linkOk \in BOOLEAN,
       newLocs \in LocChoices,
       name \in FreshProgs(LiveAfter(glProgs, destroyShaders(program).log,
                                     "glCreateProgram", "glDeleteProgram"),
                            anyName) :
        LET r == initShaders(program, locs, vsStat, fsStat, name, linkOk,
                             newLocs)
        IN  /\ program' = r.program
            /\ locs' = r.locs
            /\ glProgs' = LiveAfter(glProgs, r.log, "glCreateProgram",
                                    "glDeleteProgram")
            /\ glLog' = r.log
            /\ lastCall' = [key |-> key, action |-> action,
                            vs |-> vs, fs |-> fs, vsStat |-> vsStat,
                            fsStat |-> fsStat, linkOk |-> linkOk,
                            before |-> program, ret |-> r.ret]

\* main(): initShaders("shaders/raymarch.vs.glsl", ...) and the branch on
\* its result
MainInitShaders(stats) ==
    /\ pc = "inited"
    /\ CallInitShaders("raymarch.vs", "raymarch.fs", stats, FALSE,
                       NoCall.key, NoCall.action)
    /\ pc' = IF lastCall'.ret THEN "enter" ELSE "failed"
    /\ lastOp' = "initShaders"
    /\ UNCHANGED <<glfwUp, winLive, gladLoaded, win, width, height, flags,
                   pressedKeys, cube, shouldClose, clock, timing, glVaos,
                   glBufs, relCalls, destroyCalls, fired, drawn>>

\* mainLoop: the declarations before the while loop
MainLoopEnter(steps) ==
    /\ pc = "enter"
    /\ \E now \in Readings(steps) :
        /\ clock' = now
        /\ timing' = [timing EXCEPT !.frame = 0, !.frames_total = 0,
                                    !.start_time = now, !.last_time = now]
        /\ drawn' = [NoDrawn EXCEPT !.prevFps = timing.avg_fps,
                                    !.prevFt = timing.avg_frametime,
                                    !.refreshAt = now]
    /\ pc' = "loop"
    /\ lastOp' = "mainLoop" /\ lastCall' = NoCall /\ glLog' = << >>
    /\ UNCHANGED <<glfwUp, winLive, gladLoaded, win, width, height, flags,
                   pressedKeys, cube, program, locs, shouldClose, glProgs,
                   glVaos, glBufs, relCalls, destroyCalls, fired>>

\* frame and frames_total are unsigned int: they wrap at 2^32, which no run
\* of at most MaxFrames frames reaches, so they are kept as plain integers.

\* (variant: the loop is left whether or not the close flag is set)
LoopExitUnchecked ==
    /\ pc = "loop"
    /\ timing' = [timing EXCEPT !.frames_total = @ + timing.frame]
    /\ pc' = "left"
    /\ lastOp' = "exit" /\ lastCall' = NoCall /\ glLog' = << >>
    /\ UNCHANGED <<glfwUp, winLive, gladLoaded, win, width, height, flags,
                   pressedKeys, cube, program, locs, shouldClose, clock,
                   glProgs, glVaos, glBufs, relCalls, destroyCalls, fired,
                   drawn>>

\* mainLoop: the while condition is false; the statements after the loop
LoopExit ==
    /\ pc = "loop"
    /\ shouldClose
    /\ timing' = [timing EXCEPT !.frames_total = @ + timing.frame]
    /\ pc' = "left"
    /\ lastOp' = "exit" /\ lastCall' = NoCall /\ glLog' = << >>
    /\ UNCHANGED <<glfwUp, winLive, gladLoaded, win, width, height, flags,
                   pressedKeys, cube, program, locs, shouldClose, clock,
                   glProgs, glVaos, glBufs, relCalls, destroyCalls, fired,
                   drawn>>

\* (variant: at a refresh the total is set to the frames of the window that
\* ends, instead of growing by them)
UpdateTimingLastWindow(t, now) ==
    LET elapsed == now - t.last_time
        t1 == [t EXCEPT !.timeDelta = now - t.timeCur, !.timeCur = now]
    IN  IF elapsed >= TicksPerUnit
        THEN [t1 EXCEPT !.avg_frametime = <<1000 * elapsed, t.frame>>,
                        !.avg_fps = <<t.frame, elapsed>>,
                        !.last_time = now,
                        !.frames_total = t.frame,
                        !.frame = 0]
        ELSE t1

\* (variant: the frame counter is not reset at a refresh)
UpdateTimingNoReset(t, now) ==
    LET elapsed == now - t.last_time
        t1 == [t EXCEPT !.timeDelta = now - t.timeCur, !.timeCur = now]
    IN  IF elapsed >= TicksPerUnit
        THEN [t1 EXCEPT !.avg_frametime = <<1000 * elapsed, t.frame>>,
                        !.avg_fps = <<t.frame, elapsed>>,
                        !.last_time = now,
                        !.frames_total = @ + t.frame]
        ELSE t1

\* the timing fields after the loop body's time and FPS update at time `now`
UpdateTiming(t, now) ==
    LET elapsed == now - t.last_time
        t1 == [t EXCEPT !.timeDelta = now - t.timeCur, !.timeCur = now]
    IN  IF elapsed >= TicksPerUnit
        THEN [t1 EXCEPT !.avg_frametime = <<1000 * elapsed, t.frame>>,
                        !.avg_fps = <<t.frame, elapsed>>,
                        !.last_time = now,
                        !.frames_total = @ + t.frame,
                        !.frame = 0]
        ELSE t1

\* the rate of a window whose rate was r, after a clock advance of s
CombineRate(r, s) ==
    IF s = 0 THEN -1 ELSE IF r = 0 THEN s ELSE IF r = s THEN r ELSE -1

\* mainLoop: the while condition is true; the loop body up to the FPS update
LoopTime(steps, maxFrames) ==
    /\ pc = "loop"
    /\ ~shouldClose
    /\ drawn.total < maxFrames
    /\ \E now \in Readings(steps) :
        LET prev == IF drawn.total = 0 THEN timing.start_time
                    ELSE timing.timeCur
            s == now - prev
            r == IF drawn.total = 0 /\ s = 0 THEN 0
                 ELSE CombineRate(drawn.rate, s)
            e == now - drawn.refreshAt
        IN  /\ clock' = now
            /\ timing' = UpdateTiming(timing, now)
            /\ drawn' = [drawn EXCEPT
                            !.windowAt = drawn.window, !.elapsed = e,
                            !.prevFps = timing.avg_fps,
                            !.prevFt = timing.avg_frametime,
                            !.winRate = r,
                            !.window = IF e >= TicksPerUnit THEN 0 ELSE @,
                            !.refreshAt = IF e >= TicksPerUnit THEN now ELSE @,
                            !.rate = IF e >= TicksPerUnit THEN 0 ELSE r]
    /\ pc' = "draw"
    /\ lastOp' = "time" /\ lastCall' = NoCall /\ glLog' = << >>
    /\ UNCHANGED <<glfwUp, winLive, gladLoaded, win, width, height, flags,
                   pressedKeys, cube, program, locs, shouldClose, glProgs,
                   glVaos, glBufs, relCalls, destroyCalls, fired>>

\* displayFunc: the calls it makes that use the program or draw (the
\* matrices it computes are not part of the state)
displayFunc(prog, lc, c, w) ==
    << <<"glViewport", w>>,
       <<"glUseProgram", prog>>,
       <<"glUniformMatrix4fv", lc.projection>>,
       <<"glUniformMatrix4fv", lc.modelView>>,
       <<"glUniform1f", lc.time>>,
       <<"glBindVertexArray", c.vao>>,
       <<"glDrawElements", prog>>,
       <<"glBindVertexArray", 0>>,
       <<"glUseProgram", 0>>,
       <<"glfwSwapBuffers", 0>> >>

\* mainLoop: displayFunc(app); frame++
LoopDraw ==
    /\ pc = "draw"
    /\ glLog' = displayFunc(program, locs, cube, width)
    /\ timing' = [timing EXCEPT !.frame = @ + 1]
    /\ drawn' = [drawn EXCEPT !.total = @ + 1, !.window = @ + 1]
    /\ pc' = "poll"
    /\ lastOp' = "draw" /\ lastCall' = NoCall
    /\ UNCHANGED <<glfwUp, winLive, gladLoaded, win, width, height, flags,
                   pressedKeys, cube, program, locs, shouldClose, clock,
                   glProgs, glVaos, glBufs, relCalls, destroyCalls, fired>>

(* glfwPollEvents(): the callbacks it runs, one per pending event *)

\* (variant: the resize also drops the program, as if it had to be rebuilt
\* for the new size)
callback_ResizeDropsProgram ==
    /\ pc = "poll"
    /\ \E w \in Widths, h \in Heights :
        /\ width' = w
        /\ height' = h
    /\ program' = 0
    /\ lastOp' = "resize" /\ lastCall' = NoCall /\ glLog' = << >>
    /\ UNCHANGED <<pc, glfwUp, winLive, gladLoaded, win, flags, pressedKeys,
                   cube, locs, shouldClose, clock, timing, glProgs,
                   glVaos, glBufs, relCalls, destroyCalls, fired, drawn>>

\* callback_Resize(win, w, h)
callback_Resize ==
    /\ pc = "poll"
    /\ \E w \in Widths, h \in Heights :
        /\ width' = w
        /\ height' = h
    /\ lastOp' = "resize" /\ lastCall' = NoCall /\ glLog' = << >>
    /\ UNCHANGED <<pc, glfwUp, winLive, gladLoaded, win, flags, pressedKeys,
                   cube, program, locs, shouldClose, clock, timing, glProgs,
                   glVaos, glBufs, relCalls, destroyCalls, fired, drawn>>

KeyCall(key, action) == [NoCall EXCEPT !.key = key, !.action = action]

IsDigit(key) == key >= KEY_0 /\ key <= KEY_9

\* (variant: the key's action runs on every press or repeat event)
KeyboardBodyEveryEvent(key, action, stats) ==
    IF key < 0 \/ key > GLFW_KEY_LAST
    THEN /\ glLog' = << >> /\ lastCall' = KeyCall(key, action)
         /\ UNCHANGED <<pressedKeys, program, locs, glProgs, shouldClose,
                        fired>>
    ELSE IF action = GLFW_RELEASE
    THEN /\ pressedKeys' = [pressedKeys EXCEPT ![key] = FALSE]
         /\ fired' = [fired EXCEPT ![key] = 0]
         /\ glLog' = << >> /\ lastCall' = KeyCall(key, action)
         /\ UNCHANGED <<program, locs, glProgs, shouldClose>>
    ELSE /\ pressedKeys' = [pressedKeys EXCEPT ![key] = TRUE]
         /\ IF TRUE
            THEN IF IsDigit(key)
                 THEN /\ CallInitShaders(shaders(key - KEY_0)[1],
                                         shaders(key - KEY_0)[2], stats,
                                         FALSE, key, action)
                      /\ fired' = [fired EXCEPT ![key] = @ + 1]
                      /\ UNCHANGED shouldClose
                 ELSE IF key = GLFW_KEY_ESCAPE
                 THEN /\ shouldClose' = TRUE
                      /\ fired' = [fired EXCEPT ![key] = @ + 1]
                      /\ glLog' = << >> /\ lastCall' = KeyCall(key, action)
                      /\ UNCHANGED <<program, locs, glProgs>>
                 ELSE /\ glLog' = << >> /\ lastCall' = KeyCall(key, action)
                      /\ UNCHANGED <<program, locs, glProgs, shouldClose,
                                     fired>>
            ELSE /\ glLog' = << >> /\ lastCall' = KeyCall(key, action)
                 /\ UNCHANGED <<program, locs, glProgs, shouldClose, fired>>

\* the body of callback_Keyboard(win, key, scancode, action, mods); fired
\* counts the shader loads and close requests it makes for a key
KeyboardBody(key, action, stats) ==
    IF key < 0 \/ key > GLFW_KEY_LAST
    THEN /\ glLog' = << >> /\ lastCall' = KeyCall(key, action)
         /\ UNCHANGED <<pressedKeys, program, locs, glProgs, shouldClose,
                        fired>>
    ELSE IF action = GLFW_RELEASE
    THEN /\ pressedKeys' = [pressedKeys EXCEPT ![key] = FALSE]
         /\ fired' = [fired EXCEPT ![key] = 0]
         /\ glLog' = << >> /\ lastCall' = KeyCall(key, action)
         /\ UNCHANGED <<program, locs, glProgs, shouldClose>>
    ELSE /\ pressedKeys' = [pressedKeys EXCEPT ![key] = TRUE]
         /\ IF ~pressedKeys[key]
            THEN IF IsDigit(key)
                 THEN /\ CallInitShaders(shaders(key - KEY_0)[1],
                                         shaders(key - KEY_0)[2], stats,
                                         FALSE, key, action)
                      /\ fired' = [fired EXCEPT ![key] = @ + 1]
                      /\ UNCHANGED shouldClose
                 ELSE IF key = GLFW_KEY_ESCAPE
                 THEN /\ shouldClose' = TRUE
                      /\ fired' = [fired EXCEPT ![key] = @ + 1]
                      /\ glLog' = << >> /\ lastCall' = KeyCall(key, action)
                      /\ UNCHANGED <<program, locs, glProgs>>
                 ELSE /\ glLog' = << >> /\ lastCall' = KeyCall(key, action)
                      /\ UNCHANGED <<program, locs, glProgs, shouldClose,
                                     fired>>
            ELSE /\ glLog' = << >> /\ lastCall' = KeyCall(key, action)
                 /\ UNCHANGED <<program, locs, glProgs, shouldClose, fired>>

callback_Keyboard(keys, stats) ==
    /\ pc = "poll"
    /\ \E key \in keys, action \in KeyActions :
        KeyboardBody(key, action, stats)
    /\ lastOp' = "key"
    /\ UNCHANGED <<pc, glfwUp, winLive, gladLoaded, win, width, height, flags,
                   cube, clock, timing, glVaos, glBufs, relCalls,
                   destroyCalls, drawn>>

\* the user asks the window to close: GLFW sets the close flag itself
WindowClose ==
    /\ pc = "poll"
    /\ ~shouldClose
    /\ shouldClose' = TRUE
    /\ lastOp' = "close" /\ lastCall' = NoCall /\ glLog' = << >>
    /\ UNCHANGED <<pc, glfwUp, winLive, gladLoaded, win, width, height, flags,
                   pressedKeys, cube, program, locs, clock, timing, glProgs,
                   glVaos, glBufs, relCalls, destroyCalls, fired, drawn>>

\* glfwPollEvents() returns: back to the while condition
PollReturn ==
    /\ pc = "poll"
    /\ pc' = "loop"
    /\ lastOp' = "poll" /\ lastCall' = NoCall /\ glLog' = << >>
    /\ UNCHANGED <<glfwUp, winLive, gladLoaded, win, width, height, flags,
                   pressedKeys, cube, program, locs, shouldClose, clock,
                   timing, glProgs, glVaos, glBufs, relCalls, destroyCalls,
                   fired, drawn>>

\* the GL entry points can be called: the function pointers are loaded and
\* the window's context exists
GLCallable == gladLoaded /\ winLive

\* destroy().  win and flags are left as they are.  cube.destroy() calls
\* glBindVertexArray unconditionally: where GL cannot be called that call is
\* undefined, and either ends the process or returns.
Destroy ==
    /\ pc \in {"failed", "left", "done"}
    /\ destroyCalls < MaxDestroy
    /\ destroyCalls' = destroyCalls + 1
    /\ lastOp' = "destroy" /\ lastCall' = NoCall
    /\ IF flags = 0
       THEN /\ pc' = "done" /\ glLog' = << >>
            /\ UNCHANGED <<cube, program, glProgs, glVaos, glBufs, winLive,
                           glfwUp, relCalls>>
       ELSE LET c == CubeDestroy(cube)
                d == destroyShaders(program)
                w == IF win # 0 THEN << <<"glfwDestroyWindow", win>> >>
                     ELSE << >>
                log == c.log \o d.log \o w \o << <<"glfwTerminate", 0>> >>
            IN  \/ /\ pc' = "done"
                   /\ cube' = c.cube
                   /\ program' = d.program
                   /\ glLog' = log
                   /\ glVaos' = glVaos \ Released(log, "glDeleteVertexArrays")
                   /\ glBufs' = glBufs \ Released(log, "glDeleteBuffers")
                   /\ glProgs' = LiveAfter(glProgs, log, "glCreateProgram",
                                           "glDeleteProgram")
                   /\ winLive' = FALSE
                   /\ glfwUp' = FALSE
                   /\ relCalls' =
                        [window |-> relCalls.window
                                      + (IF win # 0 THEN 1 ELSE 0),
                         glfw |-> relCalls.glfw + 1]
                \/ /\ ~GLCallable
                   /\ pc' = "crashed"
                   /\ glLog' = << <<"glBindVertexArray", 0>> >>
                   /\ UNCHANGED <<cube, program, glProgs, glVaos, glBufs,
                                  winLive, glfwUp, relCalls>>
    /\ UNCHANGED <<gladLoaded, win, width, height, flags, pressedKeys, locs,
                   shouldClose, clock, timing, fired, drawn>>

(* ---------------------------- specifications --------------------------- *)

(* main(), from its first statement to its call of destroy(); destroy() may *)
(* then be called again, up to MaxDestroy calls in all.                     *)
Next ==
    \/ InitBaseApp(AppSteps)
    \/ MainInitShaders(AppFileStat)
    \/ MainLoopEnter(AppSteps)
    \/ LoopExit
    \/ LoopTime(AppSteps, MaxAppFrames)
    \/ LoopDraw
    \/ callback_Resize
    \/ callback_Keyboard(AppKeys, AppFileStat)
    \/ WindowClose
    \/ PollReturn
    \/ Destroy

Spec == Init /\ [][Next]_vars

\* the application after initBaseApp has returned true at time 0
AppInited ==
    /\ glfwUp = TRUE /\ winLive = TRUE /\ gladLoaded = TRUE
    /\ win = 1 /\ width = InitWidth /\ height = InitHeight /\ flags = 1
    /\ pressedKeys = [k \in Keys |-> FALSE]
    /\ cube = [vao |-> 1, vbo0 |-> 1, vbo1 |-> 2]
    /\ shouldClose = FALSE /\ clock = 0
    /\ timing = [NoTiming EXCEPT !.avg_frametime = <<-1, 1>>,
                                 !.avg_fps = <<-1, 1>>]
    /\ glVaos = {1} /\ glBufs = {1, 2}
    /\ relCalls = [window |-> 0, glfw |-> 0]
    /\ destroyCalls = 0
    /\ fired = [k \in Keys |-> 0]
    /\ drawn = NoDrawn

\* the record of main()'s call of initShaders, when it returns true
MainCall == [NoCall EXCEPT !.vs = "raymarch.vs", !.fs = "raymarch.fs",
                           !.vsStat = "ok", !.fsStat = "ok",
                           !.linkOk = TRUE, !.ret = TRUE]

\* ... and after main()'s initShaders has then returned true
ShadersLoaded ==
    /\ AppInited
    /\ program = 1 /\ glProgs = {1}
    /\ locs \in LocChoices

(* The main loop on its own, from the call of mainLoop: the clock advances  *)
(* by any step, the events are close requests and the Escape key.           *)
InitLoop ==
    /\ ShadersLoaded
    /\ pc = "enter"
    /\ lastOp = "initShaders" /\ lastCall = MainCall
    /\ glLog = initShaders(0, NoLocs, "ok", "ok", 1, TRUE, locs).log

NextLoop ==
    \/ MainLoopEnter(AnySteps)
    \/ LoopExit
    \/ LoopTime(AnySteps, MaxFrames)
    \/ LoopDraw
    \/ callback_Keyboard({GLFW_KEY_ESCAPE}, AppFileStat)
    \/ WindowClose
    \/ PollReturn

SpecLoop == InitLoop /\ [][NextLoop]_vars

(* The callbacks on their own, within one call of glfwPollEvents: every key *)
(* and every size.                                                          *)
InitInput ==
    /\ glfwUp = TRUE /\ winLive = TRUE /\ gladLoaded = TRUE
    /\ win = 1 /\ width = InitWidth /\ height = InitHeight /\ flags = 1
    /\ pressedKeys = [k \in Keys |-> FALSE]
    /\ cube = [vao |-> 1, vbo0 |-> 1, vbo1 |-> 2]
    /\ program = 1 /\ glProgs = {1} /\ locs \in LocChoices
    /\ shouldClose = FALSE /\ clock = 0
    /\ timing = [NoTiming EXCEPT !.avg_frametime = <<-1, 1>>,
                                 !.avg_fps = <<-1, 1>>, !.frame = 1]
    /\ glVaos = {1} /\ glBufs = {1, 2}
    /\ relCalls = [window |-> 0, glfw |-> 0]
    /\ destroyCalls = 0
    /\ fired = [k \in Keys |-> 0]
    /\ drawn = [NoDrawn EXCEPT !.total = 1, !.window = 1,
                               !.prevFps = <<-1, 1>>, !.prevFt = <<-1, 1>>]
    /\ pc = "poll"
    /\ lastOp = "draw" /\ lastCall = NoCall
    /\ glLog = displayFunc(program, locs, cube, width)

NextInput ==
    \/ callback_Resize
    \/ callback_Keyboard(KeyInputs, FileStat)
    \/ WindowClose

SpecInput == InitInput /\ [][NextInput]_vars

(* initShaders on its own, called any number of times with any files after  *)
(* initBaseApp; a frame may be drawn between two calls.                     *)
InitShaders ==
    /\ AppInited
    /\ program = 0 /\ glProgs = {} /\ locs = NoLocs
    /\ pc = "ready"
    /\ lastOp = "initBaseApp" /\ lastCall = NoCall
    /\ glLog = CubeInitBasic(1, 1, 2).log

\* the file pairs it is called with: those of keys 1 and 5, and main()'s
ShaderFiles == {shaders(1), shaders(5), <<"raymarch.vs", "raymarch.fs">>}

InitShadersStep ==
    /\ pc = "ready"
    /\ \E pr \in ShaderFiles :
        CallInitShaders(pr[1], pr[2], FileStat, TRUE, NoCall.key,
                        NoCall.action)
    /\ lastOp' = "initShaders"
    /\ UNCHANGED <<pc, glfwUp, winLive, gladLoaded, win, width, height, flags,
                   pressedKeys, cube, shouldClose, clock, timing, glVaos,
                   glBufs, relCalls, destroyCalls, fired, drawn>>

DisplayStep ==
    /\ pc = "ready"
    /\ glLog' = displayFunc(program, locs, cube, width)
    /\ lastOp' = "draw" /\ lastCall' = NoCall
    /\ UNCHANGED <<pc, glfwUp, winLive, gladLoaded, win, width, height, flags,
                   pressedKeys, cube, program, locs, shouldClose, clock,
                   timing, glProgs, glVaos, glBufs, relCalls, destroyCalls,
                   fired, drawn>>

NextShaders == InitShadersStep \/ DisplayStep

SpecShaders == InitShaders /\ [][NextShaders]_vars

(* A cube on its own: initBasic and destroy called in any order, starting   *)
(* from the handles initBaseApp sets (all 0), with GL usable.               *)
InitCube ==
    /\ pc = "cube"
    /\ glfwUp = TRUE /\ winLive = TRUE /\ gladLoaded = TRUE
    /\ win = 1 /\ width = InitWidth /\ height = InitHeight /\ flags = 1
    /\ pressedKeys = [k \in Keys |-> FALSE]
    /\ cube = NoCube /\ program = 0 /\ locs = NoLocs
    /\ shouldClose = FALSE /\ clock = 0
    /\ timing = [NoTiming EXCEPT !.avg_frametime = <<-1, 1>>,
                                 !.avg_fps = <<-1, 1>>]
    /\ glProgs = {} /\ glVaos = {} /\ glBufs = {}
    /\ relCalls = [window |-> 0, glfw |-> 0]
    /\ destroyCalls = 0
    /\ fired = [k \in Keys |-> 0]
    /\ drawn = NoDrawn
    /\ lastOp = "none" /\ lastCall = NoCall /\ glLog = << >>

cubeOther == <<pc, glfwUp, winLive, gladLoaded, win, width, height, flags,
               pressedKeys, program, locs, shouldClose, clock, timing,
               glProgs, relCalls, destroyCalls, fired, drawn, lastCall>>

\* cube.initBasic()
CubeInitBasicStep ==
    /\ pc = "cube"
    /\ \E va \in FreshVaos(glVaos, TRUE), bp \in FreshBufPairs(glBufs, TRUE) :
        LET c == CubeInitBasic(va, bp[1], bp[2])
        IN  /\ cube' = c.cube
            /\ glLog' = c.log
            /\ glVaos' = glVaos \cup {va}
            /\ glBufs' = glBufs \cup {bp[1], bp[2]}
    /\ lastOp' = "cube.initBasic"
    /\ UNCHANGED cubeOther

\* cube.destroy()
CubeDestroyStep ==
    /\ pc = "cube"
    /\ LET c == CubeDestroy(cube)
       IN  /\ cube' = c.cube
           /\ glLog' = c.log
           /\ glVaos' = glVaos \ Released(c.log, "glDeleteVertexArrays")
           /\ glBufs' = glBufs \ Released(c.log, "glDeleteBuffers")
    /\ lastOp' = "cube.destroy"
    /\ UNCHANGED cubeOther

NextCube == CubeInitBasicStep \/ CubeDestroyStep

SpecCube == InitCube /\ [][NextCube]_vars

(* ------------------------------- claims -------------------------------- *)

\* the handler that ran last called initShaders
CalledInitShaders == lastCall.vs # ""

\* the build of that call fails: a file is missing (or cannot be buffered),
\* a stage does not compile, or the link fails
BuildFails ==
    \/ lastCall.vsStat # "ok"
    \/ lastCall.fsStat # "ok"
    \/ ~lastCall.linkOk

\* positions of a call in the log of the last handler
At(call, arg) == { i \in 1 .. Len(glLog) : glLog[i] = <<call, arg>> }
Calls(call) == { i \in 1 .. Len(glLog) : glLog[i][1] = call }

\* C1: after initShaders returns from a build that fails (missing file,
\* compile error or link error), the bound program is the one bound before
\* the call, and the call has returned false.
C1_FailedBuildKeepsProgram ==
    (CalledInitShaders /\ BuildFails) =>
        (program = lastCall.before /\ lastCall.ret = FALSE)

\* C2: in a shader replacement requested while a program is bound, the
\* previous program is deleted only after the new program has been built
\* successfully, and the application holds a program afterwards.
C2_DeleteOnlyAfterBuild ==
    (CalledInitShaders /\ lastCall.before # 0) =>
        /\ program # 0
        /\ \A i \in At("glDeleteProgram", lastCall.before) :
              \E j \in At("glLinkProgram", 1) : j < i

\* C7: a build reports failure (no program) whenever the vertex file or the
\* fragment file is missing, whatever the link step reports.
C7_MissingFileFails ==
    (CalledInitShaders
        /\ (lastCall.vsStat = "missing" \/ lastCall.fsStat = "missing")) =>
        (lastCall.ret = FALSE /\ program = 0)

ReleaseCalls == {"glDeleteVertexArrays", "glDeleteBuffers", "glDeleteProgram",
                 "glfwDestroyWindow", "glfwTerminate"}

\* C4: wherever initBaseApp failed, and after full success, destroy()
\* followed by destroy() releases the window and the library at most once
\* each, leaves no resource unreleased, and the second destroy() makes no
\* release call at all.
C4_DestroyTwiceSafe ==
    /\ relCalls.window <= 1
    /\ relCalls.glfw <= 1
    /\ (lastOp = "destroy") =>
          /\ glVaos = {} /\ glBufs = {} /\ glProgs = {}
          /\ ~winLive /\ ~glfwUp
    /\ (lastOp = "destroy" /\ destroyCalls >= 2) =>
          \A i \in 1 .. Len(glLog) : glLog[i][1] \notin ReleaseCalls

\* C5: a loop iteration issues exactly one draw, with the bound program in
\* use, when a program is bound; when none is bound (program = 0) it issues
\* no draw call and no uniform update.
C5_DrawOnlyWithProgram ==
    (lastOp = "draw") =>
        IF program # 0
        THEN /\ Cardinality(Calls("glDrawElements")) = 1
             /\ \A i \in Calls("glDrawElements") :
                   /\ glLog[i][2] = program
                   /\ \E j \in At("glUseProgram", program) : j < i
        ELSE /\ Calls("glDrawElements") = {}
             /\ Calls("glUniformMatrix4fv") = {}
             /\ Calls("glUniform1f") = {}

\* a key with an action: a digit (shader load) or Escape (close request)
HasAction(k) == IsDigit(k) \/ k = GLFW_KEY_ESCAPE

\* C3: for every valid key and every sequence of key events, the key's
\* action has fired exactly once since the key's last release if the key is
\* recorded as pressed, and not at all otherwise: it fires on the press or
\* repeat event that finds the key not pressed, and on no further press or
\* repeat event before the next release.
C3_FiresOncePerPress ==
    \A k \in Keys :
        fired[k] = IF pressedKeys[k] /\ HasAction(k) THEN 1 ELSE 0

\* a repeat event for a held digit key has just been handled, and has loaded
\* no shader
C3_Witness ==
    /\ lastOp = "key"
    /\ lastCall.key = 49 /\ lastCall.action = GLFW_REPEAT
    /\ ~CalledInitShaders
    /\ pressedKeys[49] /\ fired[49] = 1
    /\ pressedKeys[GLFW_KEY_ESCAPE] /\ fired[GLFW_KEY_ESCAPE] = 1

\* C6: once a close request is set no further frame is drawn and the loop
\* does not start another iteration; the loop is left only from its while
\* condition and only with the close request set.
C6_CloseEndsLoop ==
    [][ /\ shouldClose =>
             /\ drawn'.total = drawn.total
             /\ pc' \in {"poll", "loop", "left"}
             /\ shouldClose'
        /\ (pc # "left" /\ pc' = "left") => (pc = "loop" /\ shouldClose)
        /\ (pc = "loop" /\ ~shouldClose) => pc' # "left" ]_vars

\* the loop has been left after the Escape key was pressed in the poll of
\* its second frame
C6_Witness ==
    /\ pc = "left"
    /\ drawn.total = 2
    /\ pressedKeys[GLFW_KEY_ESCAPE]

\* C8: the statistics change only at a clock reading at which a whole time
\* unit has passed since they last changed (or since the loop started); they
\* are then avg_fps = frames / elapsed and avg_frametime = 1000 * elapsed /
\* frames, frames being the draws issued since then, the frame counter is
\* 0 and the baseline is the current time.  When the frames came at a fixed
\* rate and exactly one time unit has passed, frames is the rate, give or
\* take one.
C8_RollingStatistics ==
    (lastOp = "time") =>
        /\ IF drawn.elapsed >= TicksPerUnit
           THEN /\ timing.avg_fps = <<drawn.windowAt, drawn.elapsed>>
                /\ timing.avg_frametime =
                       <<1000 * drawn.elapsed, drawn.windowAt>>
                /\ timing.frame = 0
                /\ timing.last_time = timing.timeCur
                /\ timing.timeCur = clock
           ELSE /\ timing.avg_fps = drawn.prevFps
                /\ timing.avg_frametime = drawn.prevFt
                /\ timing.frame = drawn.windowAt
        /\ (/\ drawn.elapsed = TicksPerUnit
            /\ drawn.winRate > 0
            /\ TicksPerUnit % drawn.winRate = 0) =>
               LET R == TicksPerUnit \div drawn.winRate
               IN  drawn.windowAt \in (R - 1) .. (R + 1)

\* a second refresh, after exactly one time unit of frames one tick apart
C8_Witness ==
    /\ lastOp = "time"
    /\ drawn.elapsed = TicksPerUnit
    /\ drawn.winRate = 1
    /\ drawn.windowAt = TicksPerUnit
    /\ drawn.prevFps[1] >= 0
    /\ timing.avg_fps = <<TicksPerUnit, TicksPerUnit>>

\* C9: a resize notification changes the stored width and height and
\* nothing else: program, uniform locations, mesh handles, key state and
\* timing fields are as they were.
C9_ResizeOnlyViewport ==
    [][ (lastOp' = "resize") =>
            UNCHANGED <<program, locs, cube, pressedKeys, timing, win, flags,
                        shouldClose, glProgs, glVaos, glBufs>> ]_vars

\* a resize to 400 x 0 has just been handled with a program bound and a key
\* held
C9_Witness ==
    /\ lastOp = "resize"
    /\ width = 400 /\ height = 0
    /\ program # 0
    /\ pressedKeys[49]

\* C10: Cube::destroy deletes exactly the vertex array and the buffers whose
\* handles are non-zero and leaves all three handles 0, so that on a cube
\* never created or already destroyed it deletes nothing; and after any
\* sequence of initBasic / destroy the two buffer handles are both non-zero
\* or both 0.
C10_CubeDestroyIdempotent ==
    [][ /\ (cube'.vbo0 = 0) <=> (cube'.vbo1 = 0)
        /\ (lastOp' = "cube.destroy") =>
              /\ cube' = NoCube
              /\ Released(glLog', "glDeleteVertexArrays") = {cube.vao} \ {0}
              /\ Released(glLog', "glDeleteBuffers")
                     = {cube.vbo0, cube.vbo1} \ {0}
              /\ \A i \in 1 .. Len(glLog') :
                     glLog'[i][1] \in ReleaseCalls => glLog'[i][2] # 0 ]_vars

\* destroy has just run on a cube without handles and has deleted nothing,
\* while an earlier cube's objects are still live
C10_Witness ==
    /\ lastOp = "cube.destroy"
    /\ cube = NoCube
    /\ \A i \in 1 .. Len(glLog) : glLog[i][1] \notin ReleaseCalls
    /\ glBufs # {}

\* C11: on exit from the main loop frames_total is the number of frames drawn
\* since the loop was entered, however many refreshes there were and
\* whenever they came; inside the loop it is that number less the frames of
\* the current window, which the frame counter holds.
C11_TotalFramesWholeRun ==
    /\ (pc = "left") => timing.frames_total = drawn.total
    /\ (pc \in {"loop", "draw", "poll"}) =>
          /\ timing.frames_total + timing.frame = drawn.total
          /\ timing.frame = drawn.window

\* the loop has been left after the statistics were refreshed, the last time
\* two time units or more after the loop started, with frames drawn before
\* and after that refresh: the total is more than the last window
C11_Witness ==
    /\ pc = "left"
    /\ timing.last_time - timing.start_time >= 2 * TicksPerUnit
    /\ drawn.window > 0
    /\ drawn.total > drawn.window + 1
    /\ timing.frames_total = drawn.total


\* the shader object a stage of the last build is given (1: vertex shader,
\* 2: fragment shader), and the state of the stage's file
StageStat(n) == IF n = 1 THEN lastCall.vsStat ELSE lastCall.fsStat

\* C12: when a build attempt has returned, on every outcome, each stage's
\* shader object was created only if its file could be read, and if created
\* it was deleted exactly once, after its creation: a stage that did not
\* compile by the very next call, before any other shader or the program is
\* created; a stage that compiled after the link, to which it was attached.
C12_StagesReleased ==
    CalledInitShaders =>
        \A n \in {1, 2} :
            LET made == At("glCreateShader", n)
                gone == At("glDeleteShader", n)
                link == Calls("glLinkProgram")
            IN  /\ Cardinality(made) = (IF StageStat(n) \in {"bad", "ok"}
                                        THEN 1 ELSE 0)
                /\ Cardinality(gone) = Cardinality(made)
                /\ \A i \in made : \A j \in gone :
                      /\ i < j
                      /\ StageStat(n) = "bad" => j = i + 1
                      /\ StageStat(n) = "ok" =>
                            /\ \E a \in At("glAttachShader", n) :
                                  \E l \in link : i < a /\ a < l /\ l < j
                /\ Cardinality(link) = 1

\* a build has returned whose vertex shader did not compile, whose fragment
\* shader compiled and whose link failed, while a program was bound
C12_Witness ==
    /\ CalledInitShaders
    /\ lastCall.vsStat = "bad" /\ lastCall.fsStat = "ok"
    /\ ~lastCall.linkOk
    /\ lastCall.before # 0
    /\ At("glDeleteShader", 1) # {} /\ At("glDeleteShader", 2) # {}

\* C13: after any sequence of initShaders calls, successful or not, and of
\* destroy() calls, the live program objects are exactly the stored program
\* if there is one (program # 0) and none otherwise; a program whose link
\* failed has been deleted by the call that created it and is not stored.
C13_OneProgramLive ==
    /\ glProgs = {program} \ {0}
    /\ (CalledInitShaders /\ ~lastCall.linkOk) =>
          /\ program = 0
          /\ \A i \in Calls("glCreateProgram") :
                \E j \in At("glDeleteProgram", glLog[i][2]) : i < j

\* destroy() has run after the main loop, in which a shader load on a key
\* press had failed at the link and left no program
C13_Witness ==
    /\ lastOp = "destroy"
    /\ pc = "done"
    /\ drawn.total > 0
    /\ lastCall = NoCall
    /\ program = 0 /\ glProgs = {}
    /\ pressedKeys[53]
    /\ Calls("glDeleteProgram") = {}

(* The states the parts start in are states of main(): each of these is   *)
(* violated by a run of Spec.                                              *)
LoopStartUnreached == ~(InitLoop)
InputStartUnreached == ~(InitInput)

====
